---- MODULE Spec2Model ----
(***************************************************************************)
(* Smooth Ratio Explorer: the exact factorizer, the ratio evaluator, the   *)
(* candidate generator and the streaming search controller of             *)
(* src/index.js, as state machines.                                        *)
(*                                                                         *)
(* Numbers.  JavaScript BigInt and integral Number values are integers of  *)
(* the model.  A double that is not integral (a logarithm) is a fixed-point*)
(* integer with FIX units per 1.0; +Infinity and -Infinity are the         *)
(* sentinels Infinity and -Infinity.                                       *)
(***************************************************************************)
EXTENDS Integers, Sequences, FiniteSets, TLC

(***************************************************************************)
(* Generic helpers                                                         *)
(***************************************************************************)
Range(s) == {s[i] : i \in DOMAIN s}

Min2(a, b) == IF a < b THEN a ELSE b

Max2(a, b) == IF a > b THEN a ELSE b

\* Loops.  A loop  for (const x of s) acc = Body(acc, x)  over s[lo..hi] is
\* evaluated by halving the range, so that the nesting depth of the evaluation
\* is logarithmic in the number of iterations.  The second half is a
\* definition of its own (...Rest) whose test on the result of the first half
\* (Len(...) >= 0 and the like, always true) only makes the evaluator finish
\* the first half before it starts the second.

(***************************************************************************)
(* Floating point: Math.log, isFinite                                      *)
(***************************************************************************)
\* Number of fractional bits of the fixed-point representation of a double.
FracBits == 14

FIX == 2 ^ FracBits

Infinity == 2 ^ 30

isFinite(x) == x # Infinity /\ x # -Infinity

\* floor(log2(x)) for an integer x >= 1.
RECURSIVE FloorLog2(_)
FloorLog2(x) == IF x < 2 THEN 0 ELSE 1 + FloorLog2(x \div 2)

\* The fractional bits of log2 of the mantissa m (FIX <= m < 2*FIX, FIX units
\* per 1.0), by repeated squaring: bit k of the result is 1 iff the square of
\* the running mantissa reaches 2.
RECURSIVE Log2Frac(_, _, _)
Log2Frac(m, k, acc) ==
    IF k = 0 THEN acc
    ELSE LET sq == (m * m) \div FIX
         IN  IF sq >= 2 * FIX
             THEN Log2Frac(sq \div 2, k - 1, 2 * acc + 1)
             ELSE Log2Frac(sq, k - 1, 2 * acc)

\* ln(2) in FIX units: the factor between a binary and a natural logarithm.
LN2 == (69315 * FIX) \div 100000

\* The natural logarithm of the integer x >= 1, in FIX units.
LnInt(x) ==
    LET e == FloorLog2(x)
        m == IF e <= FracBits THEN x * 2 ^ (FracBits - e) ELSE x \div 2 ^ (e - FracBits)
    IN  e * LN2 + (Log2Frac(m, FracBits, 0) * LN2) \div FIX

\* const LOG2 = Math.log(2); const LOG3 = Math.log(3);
LOG2 == LnInt(2)

LOG3 == LnInt(3)

\* Math.log of an integral Number n >= 0: log(0) is -Infinity.
MathLogOfInt(n) == IF n = 0 THEN -Infinity ELSE LnInt(n)

\* Math.log of a non-negative double v given in FIX units (finite or +Infinity).
MathLog(v) ==
    IF v = Infinity THEN Infinity
    ELSE IF v = 0 THEN -Infinity
    ELSE LnInt(v) - LnInt(FIX)

\* Subtraction of doubles: x - y with y possibly -Infinity or +Infinity.
FSub(x, y) ==
    IF y = -Infinity THEN Infinity
    ELSE IF y = Infinity \/ x = -Infinity THEN -Infinity
    ELSE IF x = Infinity THEN Infinity
    ELSE x - y

(***************************************************************************)
(* Exact Factorizer (src/index.js extract23Powers)                         *)
(***************************************************************************)
\* while (product % p === 0n) { count++; product = product / p; }
RECURSIVE StripFactor(_, _, _)
StripFactor(product, p, count) ==
    IF product % p = 0
    THEN StripFactor(product \div p, p, count + 1)
    ELSE [count |-> count, product |-> product]

\* A factorizer that divides by 3 at most once (an `if` for the second `while`).
extract23Powers_once(n) ==
    LET s2 == StripFactor(n * (n + 1), 2, 0)
        p3 == IF s2.product % 3 = 0 THEN 1 ELSE 0
    IN  [pow2 |-> s2.count, pow3 |-> p3,
         remainder |-> IF p3 = 1 THEN s2.product \div 3 ELSE s2.product]

extract23Powers(n) ==
    LET product == n * (n + 1)
        s2 == StripFactor(product, 2, 0)
        s3 == StripFactor(s2.product, 3, 0)
    IN  [pow2 |-> s2.count, pow3 |-> s3.count, remainder |-> s3.product]

\* part_001: extract23PowersBigInt(product), called by computeRatioBigInt
\* with product = n * (n + 1).
extract23PowersBigInt(num) ==
    LET s2 == StripFactor(num, 2, 0)
        s3 == StripFactor(s2.product, 3, 0)
    IN  [pow2 |-> s2.count, pow3 |-> s3.count, remainder |-> s3.product]

(***************************************************************************)
(* Ratio Evaluator (src/index.js computeLogRatio)                          *)
(***************************************************************************)
computeLogRatio(n) ==
    LET f == extract23Powers(n)
        logN == MathLogOfInt(n)
        logLogN == MathLog(logN)
        logRn == FSub(FSub(f.pow2 * LOG2 + f.pow3 * LOG3, logN), logLogN)
    IN  [n |-> n, pow2 |-> f.pow2, pow3 |-> f.pow3, remainder |-> f.remainder,
         logRn |-> logRn]

(***************************************************************************)
(* Arrays: Array.prototype.sort(compare)                                   *)
(***************************************************************************)
\* The comparators of the program, by name:
\*   "bigint"     (a, b) => { if (a < b) return -1; if (a > b) return 1; return 0; }
\*   "n"          (a, b) => a.n - b.n
\*   "logRnDesc"  (a, b) => b.logRn - a.logRn
\*   "ratioDesc"  (a, b) => b.ratio - a.ratio   (part_001)
\*   "logRDesc"   (a, b) => b.logR - a.logR     (part_000)
compare(cmp, a, b) ==
    IF cmp = "bigint" THEN (IF a < b THEN -1 ELSE IF a > b THEN 1 ELSE 0)
    ELSE IF cmp = "n" THEN a.n - b.n
    ELSE IF cmp = "ratioDesc" THEN b.logRatio - a.logRatio
    ELSE IF cmp = "logRDesc" THEN b.logR - a.logR
    ELSE b.logRn - a.logRn

\* One step of merging the sorted arrays A and B: acc = [i, j, out] has taken
\* i-1 elements of A and j-1 of B; on a tie the element of A goes first.
MergeStep(cmp, A, B, acc) ==
    IF acc.i <= Len(A) /\ (acc.j > Len(B) \/ compare(cmp, A[acc.i], B[acc.j]) <= 0)
    THEN [i |-> acc.i + 1, j |-> acc.j, out |-> Append(acc.out, A[acc.i])]
    ELSE [i |-> acc.i, j |-> acc.j + 1, out |-> Append(acc.out, B[acc.j])]

\* Steps lo..hi of the merge.
RECURSIVE MergeSteps(_, _, _, _, _, _)
RECURSIVE MergeStepsRest(_, _, _, _, _, _)
MergeSteps(cmp, A, B, acc, lo, hi) ==
    IF lo > hi THEN acc
    ELSE IF lo = hi THEN MergeStep(cmp, A, B, acc)
    ELSE MergeStepsRest(cmp, A, B, MergeSteps(cmp, A, B, acc, lo, (lo + hi) \div 2),
                        (lo + hi) \div 2 + 1, hi)

MergeStepsRest(cmp, A, B, left, lo, hi) ==
    IF left.i >= 0 THEN MergeSteps(cmp, A, B, left, lo, hi) ELSE left

Merge(cmp, A, B) ==
    IF Len(A) + Len(B) >= 0
    THEN MergeSteps(cmp, A, B, [i |-> 1, j |-> 1, out |-> <<>>], 1, Len(A) + Len(B)).out
    ELSE A

IsSortedBy(cmp, s) == \A i \in 1..(Len(s) - 1) : compare(cmp, s[i], s[i + 1]) <= 0

\* s.sort(cmp): the stable sort of s by the comparator cmp (a merge sort; an
\* array that is in order already is returned as it is).
RECURSIVE ArraySort(_, _)
ArraySort(cmp, s) ==
    IF Len(s) <= 1 \/ IsSortedBy(cmp, s) THEN s
    ELSE Merge(cmp, ArraySort(cmp, SubSeq(s, 1, Len(s) \div 2)),
                    ArraySort(cmp, SubSeq(s, Len(s) \div 2 + 1, Len(s))))

\* s.slice(0, k)
slice(s, k) == SubSeq(s, 1, Min2(k, Len(s)))

(***************************************************************************)
(* Candidate Generator (src/index.js generateCandidates)                   *)
(***************************************************************************)
\* const candidates = new Set(): a Set iterates in insertion order, so it is
\* the sequence of its elements in insertion order and the set of them.
EmptySet == [order |-> <<>>, elems |-> {}]

\* tryAdd without the range test n >= 2n && n <= maxNBig.
tryAdd_norange(candidates, n, maxNBig) ==
    IF n \notin candidates.elems
    THEN [order |-> Append(candidates.order, n), elems |-> candidates.elems \cup {n}]
    ELSE candidates

\* tryAdd without the test !candidates.has(n), on a plain list.
tryAdd_nodedup(candidates, n, maxNBig) ==
    IF n >= 2 /\ n <= maxNBig
    THEN [order |-> Append(candidates.order, n), elems |-> candidates.elems \cup {n}]
    ELSE candidates

\* const tryAdd = (n) => { if (n >= 2n && n <= maxNBig && !candidates.has(n)) ... }
tryAdd(candidates, n, maxNBig) ==
    IF n >= 2 /\ n <= maxNBig /\ n \notin candidates.elems
    THEN [order |-> Append(candidates.order, n), elems |-> candidates.elems \cup {n}]
    ELSE candidates

\* for (const n of ns[lo..hi]) tryAdd(n);
RECURSIVE tryAddAll(_, _, _, _, _)
RECURSIVE tryAddAllRest(_, _, _, _, _)
tryAddAll(candidates, ns, lo, hi, maxNBig) ==
    IF lo > hi THEN candidates
    ELSE IF lo = hi THEN tryAdd(candidates, ns[lo], maxNBig)
    ELSE tryAddAllRest(tryAddAll(candidates, ns, lo, (lo + hi) \div 2, maxNBig),
                       ns, (lo + hi) \div 2 + 1, hi, maxNBig)

tryAddAllRest(left, ns, lo, hi, maxNBig) ==
    IF Len(left.order) >= 0 THEN tryAddAll(left, ns, lo, hi, maxNBig) ELSE left

\* 1. / 2.  for (k = k0; k <= kMax; k++) { pow = base ** k; if (pow > maxNBig) break;
\*            tryAdd(pow - 1n); }
\* (candidates is the Set as the iterations before k left it)
RECURSIVE PowersMinusOne(_, _, _, _, _)
PowersMinusOne(base, k, kMax, maxNBig, candidates) ==
    IF Len(candidates.order) >= 0 /\ (k > kMax \/ base ^ k > maxNBig) THEN candidates
    ELSE PowersMinusOne(base, k + 1, kMax, maxNBig,
                        tryAdd(candidates, base ^ k - 1, maxNBig))

\* 3.  inner loop: for (b = 1; b <= 80; b++) { product = pow2 * 3 ** b;
\*       if (product > maxNBig) break; tryAdd(product - 1n); tryAdd(product + 1n); }
RECURSIVE ProductsInner(_, _, _, _)
ProductsInner(pow2, b, maxNBig, candidates) ==
    IF Len(candidates.order) >= 0 /\ (b > 80 \/ pow2 * 3 ^ b > maxNBig) THEN candidates
    ELSE ProductsInner(pow2, b + 1, maxNBig,
             tryAdd(tryAdd(candidates, pow2 * 3 ^ b - 1, maxNBig),
                    pow2 * 3 ^ b + 1, maxNBig))

\* 3.  outer loop: for (a = 1; a <= 100; a++) { pow2 = 2 ** a; if (pow2 > maxNBig) break; ... }
RECURSIVE Products(_, _, _)
Products(a, maxNBig, candidates) ==
    IF Len(candidates.order) >= 0 /\ (a > 100 \/ 2 ^ a > maxNBig) THEN candidates
    ELSE Products(a + 1, maxNBig, ProductsInner(2 ^ a, 1, maxNBig, candidates))

\* for (offset = -radius; offset <= radius; offset++) tryAdd(center + BigInt(offset));
Neighborhood(center, radius, maxNBig, candidates) ==
    tryAddAll(candidates, [i \in 1..(2 * radius + 1) |-> center - radius + (i - 1)],
              1, 2 * radius + 1, maxNBig)

\* 4. / 5.  for (k = k0; k <= kMax; k++) { center = base ** k;
\*            if (center > maxNBig) break; <neighborhood of center> }
RECURSIVE DenseSampling(_, _, _, _, _, _)
DenseSampling(base, k, kMax, radius, maxNBig, candidates) ==
    IF Len(candidates.order) >= 0 /\ (k > kMax \/ base ^ k > maxNBig) THEN candidates
    ELSE DenseSampling(base, k + 1, kMax, radius, maxNBig,
                       Neighborhood(base ^ k, radius, maxNBig, candidates))

\* 6.  for (let n = 2; n <= maxN; n += step) tryAdd(BigInt(n));
SparseSampling(step, maxN, maxNBig, candidates) ==
    IF maxN < 2 THEN candidates
    ELSE tryAddAll(candidates, [i \in 1..((maxN - 2) \div step + 1) |-> 2 + (i - 1) * step],
                   1, (maxN - 2) \div step + 1, maxNBig)

\* A density map with the radii of low and medium exchanged.
densityRadius_swapped(dens) ==
    IF dens = "low" THEN 200
    ELSE IF dens = "medium" THEN 50
    ELSE IF dens = "high" THEN 500
    ELSE 200

\* const densityMap = { low: 50, medium: 200, high: 500 };
\* const radius = densityMap[density] || 200;
densityRadius(dens) ==
    IF dens = "low" THEN 50
    ELSE IF dens = "medium" THEN 200
    ELSE IF dens = "high" THEN 500
    ELSE 200

\* const step = density === 'high' ? 1000 : density === 'medium' ? 10000 : 100000;
densityStep(dens) ==
    IF dens = "high" THEN 1000 ELSE IF dens = "medium" THEN 10000 ELSE 100000

\* The Set built by the six strategies, before it is sorted (maxNBig is
\* BigInt(maxN), the same integer).
candidateSet(maxN, dens) ==
    SparseSampling(densityStep(dens), maxN, maxN,
      DenseSampling(3, 6, 130, densityRadius(dens), maxN,
        DenseSampling(2, 10, 200, densityRadius(dens), maxN,
          Products(1, maxN,
            PowersMinusOne(3, 2, 130, maxN,
              PowersMinusOne(2, 2, 200, maxN, EmptySet))))))

\* A generator that yields the Set in insertion order (the sort left out).
generateCandidates_unsorted(maxN, dens) == candidateSet(maxN, dens).order

\* function* generateCandidates(maxN, density): the sequence it yields.
generateCandidates(maxN, dens) ==
    ArraySort("bigint", candidateSet(maxN, dens).order)

(***************************************************************************)
(* Strings and numbers of the form: parseInt, replace, toLocaleString,     *)
(* toFixed                                                                 *)
(***************************************************************************)
\* A string is the sequence of its characters.
Digits == <<"0", "1", "2", "3", "4", "5", "6", "7", "8", "9">>

IsDigit(c) == \E d \in 1..10 : Digits[d] = c

DigitValue(c) == (CHOOSE d \in 1..10 : Digits[d] = c) - 1

\* str.replace(/,/g, '')
removeCommas(str) == LET NotComma(c) == c # "," IN SelectSeq(str, NotComma)

\* The longest prefix of str that consists of digits.
RECURSIVE DigitPrefix(_)
DigitPrefix(str) ==
    IF str = <<>> \/ ~IsDigit(Head(str)) THEN <<>>
    ELSE <<Head(str)>> \o DigitPrefix(Tail(str))

RECURSIVE StripZeros(_)
StripZeros(ds) == IF Len(ds) > 1 /\ Head(ds) = "0" THEN StripZeros(Tail(ds)) ELSE ds

RECURSIVE DecimalValue(_, _)
DecimalValue(ds, acc) ==
    IF ds = <<>> THEN acc ELSE DecimalValue(Tail(ds), 10 * acc + DigitValue(Head(ds)))

\* The longest numeral whose value is an integer of the model (< 10^9).
MaxIntDigits == 9

\* parseInt(str): an optional sign and the digits that follow it; NaN when
\* there is none.  A Number is [kind, neg, val, digits]: kind "NaN"; kind
\* "int" with the value val; or kind "big", an integer of more than
\* MaxIntDigits digits, which the model keeps as its numeral (sign neg).
parseInt(str) ==
    LET neg == str # <<>> /\ Head(str) = "-"
        ds == DigitPrefix(IF neg THEN Tail(str) ELSE str)
        sig == StripZeros(ds)
    IN  IF ds = <<>> THEN [kind |-> "NaN", neg |-> FALSE, val |-> 0, digits |-> <<>>]
        ELSE IF Len(sig) > MaxIntDigits
             THEN [kind |-> "big", neg |-> neg, val |-> 0, digits |-> sig]
             ELSE [kind |-> "int", neg |-> neg, digits |-> sig,
                   val |-> IF neg THEN -DecimalValue(sig, 0) ELSE DecimalValue(sig, 0)]

\* !maxN || maxN < 2
IsFalsy(num) == num.kind = "NaN" \/ (num.kind = "int" /\ num.val = 0)

LessThan2(num) ==
    \/ num.kind = "int" /\ num.val < 2
    \/ num.kind = "big" /\ num.neg

\* The decimal numeral of the integer n >= 0.
RECURSIVE Numeral(_)
Numeral(n) == IF n < 10 THEN <<Digits[n + 1]>> ELSE Append(Numeral(n \div 10), Digits[(n % 10) + 1])

\* Groups of three digits from the right, separated by commas.
RECURSIVE Grouped(_)
Grouped(ds) ==
    IF Len(ds) <= 3 THEN ds
    ELSE Grouped(SubSeq(ds, 1, Len(ds) - 3)) \o <<",">> \o SubSeq(ds, Len(ds) - 2, Len(ds))

\* n.toLocaleString() for an integer n >= 0 (locale en-US).
toLocaleString(n) == Grouped(Numeral(n))

\* x.toFixed(4) for a double x in FIX units: the nearest multiple of 0.0001,
\* as the number of ten-thousandths.
toFixed4(x) ==
    LET whole == x \div FIX
        frac == x % FIX
    IN  whole * 10000 + (frac * 10000 + FIX \div 2) \div FIX

(***************************************************************************)
(* State                                                                   *)
(***************************************************************************)
VARIABLES
    \* the factorizer under test: its argument and what it returned
    fN, fOut,
    \* a generator object of generateCandidates: its arguments, the Set and
    \* the sorted array of its body, and the values it has yielded so far
    gMaxN, gDensity, gState, gCandidates, gSorted, gYielded,
    \* SmoothRatioExplorer: the React state (useState) ...
    maxNInput, density, autoTrackSpikes, computing, progress, currentN,
    spikes, allData, stats,
    \* ... abortRef.current (useRef) ...
    abortRef,
    \* ... the invocations of computeData that passed the input test and have
    \* not returned, in the order of their start, each with its local
    \* variables ...
    runs,
    \* ... the local variables of the invocation that returned in the step
    \* that led to this state, as it left them (null when none returned) ...
    returned,
    \* ... and the number of invocations that passed the input test
    starts,
    \* one invocation of computeData seen through its counters alone: what
    \* lines 161-263 do to totalEstimate, processed and progress
    tally,
    \* the timer-batched SmoothRatioExplorer of src/unnamed/part_001: its
    \* React state, the timers it has set and the local variables of its
    \* calls of computeData
    timed,
    \* the SmoothRatioExplorer of src/unnamed/part_000: its React state
    earliest

factorVars == <<fN, fOut>>

genVars == <<gMaxN, gDensity, gState, gCandidates, gSorted, gYielded>>

inputVars == <<maxNInput, density, autoTrackSpikes>>

searchVars == <<computing, progress, currentN, spikes, allData, stats, abortRef, runs, starts>>

variantVars == <<timed, earliest>>

vars == <<factorVars, genVars, inputVars, searchVars, returned, tally, variantVars>>

None == "none"

\* null, and a value that is not null.
Null == <<>>

Some(x) == <<x>>

Densities == {"low", "medium", "high"}

\* The factorizer has not returned.
NoResult == [by |-> None, pow2 |-> 0, pow3 |-> 0, remainder |-> 0]

\* No factorizer call and no generator object under test.
FactorIdle == fN = 0 /\ fOut = NoResult

GenIdle ==
    /\ gMaxN = 0 /\ gDensity = None /\ gState = "none"
    /\ gCandidates = <<>> /\ gSorted = <<>> /\ gYielded = <<>>

\* No invocation is followed through its counters.
TallyIdle == tally = [pc |-> "none"]

\* Neither component of src/unnamed is mounted.
VariantsIdle == timed = [pc |-> "none"] /\ earliest = [pc |-> "none"]

\* useState('1000000'), useState('medium'), useState(false), useState(0),
\* useState(null), useState([]), useState([]), useState(null), useState(true),
\* useRef(false); no computeData has been called.  (The initial text of the
\* maxN field is one of the texts the model types into it.)
ExplorerInit(text) ==
    /\ maxNInput = text /\ density = "medium" /\ autoTrackSpikes = TRUE
    /\ computing = FALSE /\ progress = 0 /\ currentN = Null
    /\ spikes = <<>> /\ allData = <<>> /\ stats = Null
    /\ abortRef = FALSE /\ runs = <<>> /\ returned = Null /\ starts = 0

(***************************************************************************)
(* The factorizer as a system: one call on an argument n >= 2              *)
(***************************************************************************)
\* Largest argument of the factorizer that is tried.
MaxFactorN == 150

InitFactor ==
    /\ fN \in 2..MaxFactorN /\ fOut = NoResult
    /\ GenIdle /\ ExplorerInit(<<>>) /\ TallyIdle /\ VariantsIdle

\* index.js: extract23Powers(n)
Factorize ==
    /\ fOut = NoResult
    /\ fOut' = [by |-> "extract23Powers"] @@ extract23Powers(fN)
    /\ UNCHANGED <<fN, tally, variantVars, genVars, inputVars, searchVars, returned>>

\* part_001: computeRatioBigInt(n) calls extract23PowersBigInt(nBig * (nBig + 1n))
FactorizeBigInt ==
    /\ fOut = NoResult
    /\ fOut' = [by |-> "extract23PowersBigInt"] @@ extract23PowersBigInt(fN * (fN + 1))
    /\ UNCHANGED <<fN, tally, variantVars, genVars, inputVars, searchVars, returned>>

NextFactor == Factorize \/ FactorizeBigInt

SpecFactor == InitFactor /\ [][NextFactor]_vars

(***************************************************************************)
(* The generator as a system: one generator object, driven by next()       *)
(***************************************************************************)
\* generateCandidates is tried for every maxN in 2..GenSmallMaxN ...
GenSmallMaxN == 40

\* ... and for these, which reach the dense neighbourhoods of 3^6 = 729 and
\* 2^10 = 1024, the second point of the sparse lattice of density high (1002)
\* and that of density medium (10002).
GenLargeMaxNs == {729, 1024, 1200, 10002}

\* The values of the parameter density that are tried: the three the select
\* of the page offers, and one that is none of them.
GenDensities == Densities \cup {"ultra"}

InitGen ==
    /\ gMaxN \in (2..GenSmallMaxN) \cup GenLargeMaxNs
    /\ gDensity \in GenDensities
    /\ gState = "suspendedStart"
    /\ gCandidates = <<>> /\ gSorted = <<>> /\ gYielded = <<>>
    /\ FactorIdle /\ ExplorerInit(<<>>) /\ TallyIdle /\ VariantsIdle

\* The first next(): the body runs up to its first yield (or to its end).
GenFirstNext ==
    /\ gState = "suspendedStart"
    /\ gCandidates' = candidateSet(gMaxN, gDensity).order
    /\ gSorted' = generateCandidates(gMaxN, gDensity)
    /\ IF Len(gSorted') = 0
       THEN gState' = "completed" /\ gYielded' = gYielded
       ELSE gState' = "suspendedYield" /\ gYielded' = <<gSorted'[1]>>
    /\ UNCHANGED <<gMaxN, gDensity, factorVars, tally, variantVars, inputVars, searchVars, returned>>

\* A later next(): the loop for (const n of sorted) yield n goes on.
GenNext ==
    /\ gState = "suspendedYield"
    /\ IF Len(gYielded) = Len(gSorted)
       THEN gState' = "completed" /\ gYielded' = gYielded
       ELSE gState' = gState /\ gYielded' = Append(gYielded, gSorted[Len(gYielded) + 1])
    /\ UNCHANGED <<gMaxN, gDensity, gCandidates, gSorted, factorVars, tally, variantVars, inputVars, searchVars,
                   returned>>

NextGen == GenFirstNext \/ GenNext

SpecGen == InitGen /\ [][NextGen]_vars

(***************************************************************************)
(* Streaming Search Controller (src/index.js SmoothRatioExplorer)          *)
(***************************************************************************)
\* The texts typed into the maxN field: none, "0", "-5", "1", "1,200",
\* "1000000000000000" (10^15) and "2000000000000000" (2 * 10^15).
MaxNInputs ==
    { <<>>, <<"0">>, <<"-", "5">>, <<"1">>, <<"1", ",", "2", "0", "0">>,
      <<"1", "0", "0", "0", "0", "0", "0", "0", "0", "0", "0", "0", "0", "0", "0", "0">>,
      <<"2", "0", "0", "0", "0", "0", "0", "0", "0", "0", "0", "0", "0", "0", "0", "0">> }

\* At most this many invocations of computeData pass the input test.  (The
\* inputs are read by computeData alone, at lines 151 and 168: once no
\* invocation is left to start, the model edits them no more.)
MaxStarts == 2

\* const batchSize = 500;
batchSize == 500

\* if (tempCandidates.length > 50000) break; // Cap for estimation
EstimationCap == 50000

\* .slice(0, 50)
TopCount == 50

\* const maxN = parseInt(maxNInput.replace(/,/g, ''));
parsedMaxN(text) == parseInt(removeCommas(text))

\* if (!maxN || maxN < 2) return;
Rejected(maxN) == IsFalsy(maxN) \/ LessThan2(maxN)

\* The values of maxN for which the model runs the generator: the integers
\* of the model that pass the input test.
NumericMaxNs ==
    {parsedMaxN(text).val : text \in {x \in MaxNInputs :
        parsedMaxN(x).kind = "int" /\ ~Rejected(parsedMaxN(x))}}

LargestMaxN == CHOOSE m \in NumericMaxNs : \A k \in NumericMaxNs : k <= m

\* generateCandidates and computeLogRatio, evaluated once for each argument.
CandidateMemo == [m \in NumericMaxNs, d \in Densities |-> generateCandidates(m, d)]

LogRatioMemo == [n \in 2..LargestMaxN |-> computeLogRatio(n)]

\* A controller that also takes a result that equals the running maximum.
isSpike_orEqual(auto, result, maxLogRn) == auto /\ result.logRn >= maxLogRn

\* autoTrackSpikes && result.logRn > maxLogRn
isSpike(auto, result, maxLogRn) == auto /\ result.logRn > maxLogRn

\* lines 193-208: what a full batch does with the result of one candidate.
\* acc holds the locals results, spikeResults, maxLogRn, processed and the
\* React state currentN, progress.
Accumulate(acc, result, auto, totalEstimate) ==
    IF ~isFinite(result.logRn) THEN acc
    ELSE [results |-> Append(acc.results, result),
          spikeResults |-> IF isSpike(auto, result, acc.maxLogRn)
                           THEN Append(acc.spikeResults, result)
                           ELSE acc.spikeResults,
          maxLogRn |-> IF isSpike(auto, result, acc.maxLogRn)
                       THEN result.logRn ELSE acc.maxLogRn,
          processed |-> acc.processed + 1,
          currentN |-> IF (acc.processed + 1) % 100 = 0
                       THEN Some(result.n) ELSE acc.currentN,
          progress |-> IF (acc.processed + 1) % 100 = 0
                       THEN Min2(99, (100 * (acc.processed + 1))
                                         \div Max2(totalEstimate, acc.processed + 1))
                       ELSE acc.progress]

\* lines 190-208: one candidate of a full batch.
ProcessCandidate(acc, candidate, auto, totalEstimate) ==
    Accumulate(acc, LogRatioMemo[candidate], auto, totalEstimate)

\* lines 189-212: for (const candidate of batch) { ... } over batch[lo..hi]
RECURSIVE ProcessBatch(_, _, _, _, _, _)
RECURSIVE ProcessBatchRest(_, _, _, _, _, _)
ProcessBatch(acc, batch, lo, hi, auto, totalEstimate) ==
    IF lo > hi THEN acc
    ELSE IF lo = hi THEN ProcessCandidate(acc, batch[lo], auto, totalEstimate)
    ELSE ProcessBatchRest(ProcessBatch(acc, batch, lo, (lo + hi) \div 2, auto, totalEstimate),
                          batch, (lo + hi) \div 2 + 1, hi, auto, totalEstimate)

ProcessBatchRest(left, batch, lo, hi, auto, totalEstimate) ==
    IF left.processed >= 0 THEN ProcessBatch(left, batch, lo, hi, auto, totalEstimate)
    ELSE left

\* lines 223-228: what the remaining batch does with the result of one
\* candidate (processed, currentN and progress are left alone).
AccumulateRemaining(acc, result, auto) ==
    IF ~isFinite(result.logRn) THEN acc
    ELSE [results |-> Append(acc.results, result),
          spikeResults |-> IF isSpike(auto, result, acc.maxLogRn)
                           THEN Append(acc.spikeResults, result)
                           ELSE acc.spikeResults,
          maxLogRn |-> IF isSpike(auto, result, acc.maxLogRn)
                       THEN result.logRn ELSE acc.maxLogRn,
          processed |-> acc.processed]

\* lines 221-229: one candidate of the remaining batch.
ProcessRemainingCandidate(acc, candidate, auto) ==
    AccumulateRemaining(acc, LogRatioMemo[candidate], auto)

\* lines 219-233: for (const candidate of batch) { ... } over batch[lo..hi],
\* entered with abortRef.current false.
RECURSIVE ProcessRemaining(_, _, _, _, _)
RECURSIVE ProcessRemainingRest(_, _, _, _, _)
ProcessRemaining(acc, batch, lo, hi, auto) ==
    IF lo > hi THEN acc
    ELSE IF lo = hi THEN ProcessRemainingCandidate(acc, batch[lo], auto)
    ELSE ProcessRemainingRest(ProcessRemaining(acc, batch, lo, (lo + hi) \div 2, auto),
                              batch, (lo + hi) \div 2 + 1, hi, auto)

ProcessRemainingRest(left, batch, lo, hi, auto) ==
    IF left.processed >= 0 THEN ProcessRemaining(left, batch, lo, hi, auto) ELSE left

\* lines 161-164: const results = []; const spikeResults = [];
\* let maxLogRn = -Infinity; let processed = 0;
NoResults ==
    [results |-> <<>>, spikeResults |-> <<>>, maxLogRn |-> -Infinity, processed |-> 0]

\* The array results of an invocation that has evaluated every candidate.
AllResults(sorted) == ProcessRemaining(NoResults, sorted, 1, Len(sorted), FALSE).results

\* [...results].sort((a, b) => b.logRn - a.logRn), evaluated once for each
\* array that an invocation which evaluates every candidate sorts: the array
\* and what the sort makes of it.
SortMemo ==
    [m \in NumericMaxNs, d \in Densities |->
        [array |-> AllResults(CandidateMemo[m, d]),
         sorted |-> ArraySort("logRnDesc", AllResults(CandidateMemo[m, d]))]]

\* [...results].sort((a, b) => b.logRn - a.logRn) in an invocation with the
\* arguments maxN and dens: looked up when SortMemo holds the array.
sortByLogRn(results, maxN, dens) ==
    IF results = SortMemo[maxN, dens].array THEN SortMemo[maxN, dens].sorted
    ELSE ArraySort("logRnDesc", results)

\* Math.min(...results.map(r => r.logRn)) over results[lo..hi]
RECURSIVE MinLogRn(_, _, _)
MinLogRn(results, lo, hi) ==
    IF lo = hi THEN results[lo].logRn
    ELSE Min2(MinLogRn(results, lo, (lo + hi) \div 2),
              MinLogRn(results, (lo + hi) \div 2 + 1, hi))

\* Math.max(...results.map(r => r.n)) over results[lo..hi]
RECURSIVE MaxN(_, _, _)
MaxN(results, lo, hi) ==
    IF lo = hi THEN results[lo].n
    ELSE Max2(MaxN(results, lo, (lo + hi) \div 2),
              MaxN(results, (lo + hi) \div 2 + 1, hi))

\* The execution state of one computeData together with the React state it
\* writes: c = [run, computing, progress, currentN, spikes, allData, stats].
\* The values a step computes once and uses several times (a local variable
\* of the code) are parameters of the definitions below.

\* A controller that publishes the list sorted by logRn as the spike list
\* in both modes.
SetResults_sortedSpikes(c, acc, results, topResults) ==
    [run |-> [c.run EXCEPT !.pc = "done", !.outcome = "Completed",
                           !.acc = [acc EXCEPT !.results = results]],
     computing |-> FALSE,
     progress |-> 100,
     currentN |-> c.currentN,
     allData |-> results,
     spikes |-> topResults,
     stats |-> IF Len(results) > 0
               THEN Some([total |-> Len(results),
                          maxLogRn |-> toFixed4(topResults[1].logRn),
                          maxN |-> toLocaleString(topResults[1].n),
                          minLogRn |-> toFixed4(MinLogRn(results, 1, Len(results))),
                          largestN |-> toLocaleString(MaxN(results, 1, Len(results))),
                          spikes |-> Len(topResults)])
               ELSE c.stats]

\* lines 240-263, with results sorted and topResults computed.
\* (Math.exp(logRn), the fields ratio and maxRatio, is display only and is
\* not part of the model.)
SetResults(c, acc, results, topResults) ==
    [run |-> [c.run EXCEPT !.pc = "done", !.outcome = "Completed",
                           !.acc = [acc EXCEPT !.results = results]],
     computing |-> FALSE,
     progress |-> 100,
     currentN |-> c.currentN,
     allData |-> results,
     spikes |-> IF c.run.autoTrackSpikes THEN acc.spikeResults ELSE topResults,
     stats |-> IF Len(results) > 0
               THEN Some([total |-> Len(results),
                          maxLogRn |-> toFixed4(topResults[1].logRn),
                          maxN |-> toLocaleString(topResults[1].n),
                          minLogRn |-> toFixed4(MinLogRn(results, 1, Len(results))),
                          largestN |-> toLocaleString(MaxN(results, 1, Len(results))),
                          spikes |-> IF c.run.autoTrackSpikes THEN Len(acc.spikeResults)
                                     ELSE Len(topResults)])
               ELSE c.stats]

\* A controller that takes the first 50 results without sorting them by
\* logRn.
TopResults_unsorted(c, acc, results) ==
    SetResults(c, acc, results, slice(results, TopCount))

\* line 238: const topResults = [...results].sort(...).slice(0, 50);
TopResults(c, acc, results) ==
    SetResults(c, acc, results,
               slice(sortByLogRn(results, c.run.maxN.val, c.run.density), TopCount))

\* line 237: results.sort((a, b) => a.n - b.n);
SortResults(c, acc) == TopResults(c, acc, ArraySort("n", acc.results))

\* A controller that publishes without evaluating the remaining batch.
Finish_noRemaining(c, abort) ==
    IF abort
    THEN [c EXCEPT !.run.pc = "done", !.run.outcome = "Cancelled", !.computing = FALSE]
    ELSE SortResults(c, c.run.acc)

\* lines 218-263, from the end of the for-of loop to the return: with
\* abortRef.current set, the remaining batch and the block of line 235 are
\* skipped.
Finish(c, abort) ==
    IF abort
    THEN [c EXCEPT !.run.pc = "done", !.run.outcome = "Cancelled", !.computing = FALSE]
    ELSE SortResults(c, ProcessRemaining(c.run.acc, c.run.batch, 1, Len(c.run.batch),
                                         c.run.autoTrackSpikes))

\* lines 181-186, entered with an empty batch: the for-of loop pulls
\* candidates from sorted until abortRef.current is seen (break, the candidate
\* pulled last is dropped), until the batch is full (line 187), or until the
\* generator is exhausted.
Pull(c, abort, sorted) ==
    IF abort /\ Len(sorted) > c.run.consumed
    THEN [c EXCEPT !.run.pc = "end", !.run.consumed = @ + 1]
    ELSE IF Len(sorted) - c.run.consumed >= batchSize
    THEN [c EXCEPT !.run.pc = "await",
                   !.run.consumed = @ + batchSize,
                   !.run.batch = SubSeq(sorted, c.run.consumed + 1,
                                        c.run.consumed + batchSize)]
    ELSE [c EXCEPT !.run.pc = "end",
                   !.run.consumed = Len(sorted),
                   !.run.batch = SubSeq(sorted, c.run.consumed + 1, Len(sorted))]

\* After the loop has stopped pulling: suspended at the await, or past it.
AfterPull(c, abort) == IF c.run.pc = "await" THEN c ELSE Finish(c, abort)

\* lines 181-263, entered with an empty batch, up to the next await or to the
\* return.
Gather(c, abort) ==
    AfterPull(Pull(c, abort, CandidateMemo[c.run.maxN.val, c.run.density]), abort)

\* line 212: batch = [], with the locals and the React state as the
\* evaluation of the batch left them.
BatchDone(c, acc) ==
    [c EXCEPT !.run.acc = [results |-> acc.results,
                           spikeResults |-> acc.spikeResults,
                           maxLogRn |-> acc.maxLogRn,
                           processed |-> acc.processed],
              !.run.batch = <<>>,
              !.currentN = acc.currentN,
              !.progress = acc.progress]

\* lines 189-212: the gathered batch is evaluated.
EvaluateBatch(c) ==
    BatchDone(c, ProcessBatch(c.run.acc @@ [currentN |-> c.currentN, progress |-> c.progress],
                              c.run.batch, 1, Len(c.run.batch),
                              c.run.autoTrackSpikes, c.run.totalEstimate))

\* A controller that drops the gathered batch when abortRef.current is set at
\* the resumption.
AfterTimer_checked(c, abort) ==
    IF abort THEN Finish([c EXCEPT !.run.batch = <<>>], abort)
    ELSE Gather(EvaluateBatch(c), abort)

\* lines 187-263, from the resumption after the await: the gathered batch is
\* evaluated, batch = [], and the for-of loop goes on.
AfterTimer(c, abort) == Gather(EvaluateBatch(c), abort)

\* lines 161-165: the locals of a fresh invocation, the id-th that passed
\* the input test.
NewRun(id, maxN, d, auto) ==
    [id |-> id, pc |-> "start", outcome |-> None,
     maxN |-> maxN, density |-> d, autoTrackSpikes |-> auto,
     acc |-> NoResults,
     totalEstimate |-> 0, consumed |-> 0, batch |-> <<>>]

\* lines 154-158: setComputing(true); setProgress(0); setSpikes([]);
\* setAllData([]); setStats(null);
Reset(run) ==
    [run |-> run, computing |-> TRUE, progress |-> 0, currentN |-> currentN,
     spikes |-> <<>>, allData |-> <<>>, stats |-> Null]

\* lines 167-174: the estimation pass over a generator that yields sorted.
Estimate(c, sorted) ==
    [c EXCEPT !.run.totalEstimate = Min2(Len(sorted), EstimationCap + 1)]

\* lines 167-187.  For a maxN beyond the integers of the model the invocation
\* is left inside the generator: lines 120-124 add more than 10^4 candidates
\* per unit of 10^9 before the first yield.
Begin(c) ==
    IF c.run.maxN.kind = "big" THEN [c EXCEPT !.run.pc = "generating"]
    ELSE Gather(Estimate(c, CandidateMemo[c.run.maxN.val, c.run.density]), FALSE)

\* s without its i-th element.
Remove(s, i) == SubSeq(s, 1, i - 1) \o SubSeq(s, i + 1, Len(s))

\* The React state as the context c leaves it; the invocation of c is among
\* the invocations in flight (suspended), or it has returned (returns).
Commit(c, suspended, returns) ==
    /\ computing' = c.computing
    /\ progress' = c.progress
    /\ currentN' = c.currentN
    /\ spikes' = c.spikes
    /\ allData' = c.allData
    /\ stats' = c.stats
    /\ IF c.run.pc = "done"
       THEN runs' = returns /\ returned' = Some(c.run)
       ELSE runs' = suspended /\ returned' = Null

\* The page is busy in the synchronous part of a generator: no event handler
\* and no timer callback runs.
Busy == \E i \in DOMAIN runs : runs[i].pc = "generating"

\* onChange of the maxN field (disabled={computing})
SetMaxNInput(text) ==
    /\ ~Busy /\ ~computing
    /\ starts < MaxStarts
    /\ text # maxNInput
    /\ maxNInput' = text
    /\ returned' = Null
    /\ UNCHANGED <<density, autoTrackSpikes, searchVars, factorVars, genVars, tally, variantVars>>

\* onChange of the density select (disabled={computing})
SetDensity(d) ==
    /\ ~Busy /\ ~computing
    /\ starts < MaxStarts
    /\ d # density
    /\ density' = d
    /\ returned' = Null
    /\ UNCHANGED <<maxNInput, autoTrackSpikes, searchVars, factorVars, genVars, tally, variantVars>>

\* onChange of the auto-track checkbox (disabled={computing})
SetAutoTrackSpikes(b) ==
    /\ ~Busy /\ ~computing
    /\ starts < MaxStarts
    /\ b # autoTrackSpikes
    /\ autoTrackSpikes' = b
    /\ returned' = Null
    /\ UNCHANGED <<maxNInput, density, searchVars, factorVars, genVars, tally, variantVars>>

\* The invocation of computeData passes the input test: lines 154-187, up to
\* its first await or, when fewer than batchSize candidates are generated, to
\* its return.
StartRun(c) ==
    /\ abortRef' = FALSE
    /\ starts' = starts + 1
    /\ Commit(c, Append(runs, c.run), runs)

\* onClick of the Start button (disabled={computing}): computeData
Start ==
    /\ ~Busy /\ ~computing
    /\ starts < MaxStarts
    /\ IF Rejected(parsedMaxN(maxNInput))
       THEN UNCHANGED <<searchVars, returned, variantVars>>
       ELSE StartRun(Begin(Reset(NewRun(starts + 1, parsedMaxN(maxNInput),
                                        density, autoTrackSpikes))))
    /\ UNCHANGED <<inputVars, factorVars, genVars, tally, variantVars>>

\* The invocation runs[i] goes on from its await.
ResumeRun(i, c) == Commit(c, [runs EXCEPT ![i] = c.run], Remove(runs, i))

\* The timer of  await new Promise(resolve => setTimeout(resolve, 0))  of
\* invocation runs[i] fires: lines 187-263, up to the next await or to the
\* return.
Resume(i) ==
    /\ ~Busy
    /\ runs[i].pc = "await"
    /\ ResumeRun(i, AfterTimer([run |-> runs[i], computing |-> computing,
                                progress |-> progress, currentN |-> currentN,
                                spikes |-> spikes, allData |-> allData, stats |-> stats],
                               abortRef))
    /\ UNCHANGED <<abortRef, starts, inputVars, factorVars, genVars, tally, variantVars>>

\* const handleStop = () => { abortRef.current = true; setComputing(false); }
\* (the Stop button is rendered only while computing)
handleStop ==
    /\ ~Busy /\ computing
    /\ abortRef' = TRUE
    /\ computing' = FALSE
    /\ returned' = Null
    /\ UNCHANGED <<progress, currentN, spikes, allData, stats, runs, starts,
                   inputVars, factorVars, genVars, tally, variantVars>>

\* The generator of invocation runs[i] outgrows the largest Set of the engine:
\* the exception leaves the async function, whose promise is rejected; lines
\* 154-159 have run, line 263 never does.
GeneratorFails(i) ==
    /\ runs[i].pc = "generating"
    /\ runs' = Remove(runs, i)
    /\ returned' = Null
    /\ UNCHANGED <<computing, progress, currentN, spikes, allData, stats, abortRef,
                   starts, inputVars, factorVars, genVars, tally, variantVars>>

Init ==
    /\ \E text \in MaxNInputs : ExplorerInit(text)
    /\ FactorIdle /\ GenIdle /\ TallyIdle /\ VariantsIdle

Next ==
    \/ \E text \in MaxNInputs : SetMaxNInput(text)
    \/ \E d \in Densities : SetDensity(d)
    \/ \E b \in BOOLEAN : SetAutoTrackSpikes(b)
    \/ Start
    \/ \E i \in DOMAIN runs : Resume(i)
    \/ handleStop
    \/ \E i \in DOMAIN runs : GeneratorFails(i)

Spec == Init /\ [][Next]_vars

(***************************************************************************)
(* One invocation of computeData seen through its counters                *)
(* (src/index.js lines 161-263), for candidate sequences longer than the  *)
(* estimation cap.  Every candidate is an integer n >= 2, for which       *)
(* Math.log(n) > 0 and logRn is finite: each evaluated candidate of a     *)
(* full batch counts in processed (lines 193 and 202).                    *)
(***************************************************************************)
\* The powers pow, pow * base, pow * base^2, ... that are no greater than
\* maxN: the values a loop  for (k ...) { pow = base ** k; if (pow > maxNBig)
\* break; ... }  goes through.  (The limits 200, 130, 100 and 80 of k are
\* beyond every maxN of the model.)
RECURSIVE PowersUpTo(_, _, _)
PowersUpTo(base, pow, maxN) ==
    IF pow > maxN THEN {} ELSE {pow} \cup PowersUpTo(base, pow * base, maxN)

\* lines 70-124: the arguments of tryAdd, as a set.
candidatePoints(maxN, dens) ==
    {pow - 1 : pow \in PowersUpTo(2, 4, maxN)}
    \cup {pow - 1 : pow \in PowersUpTo(3, 9, maxN)}
    \cup UNION {UNION {{pow2 * pow3 - 1, pow2 * pow3 + 1} :
                          pow3 \in PowersUpTo(3, 3, maxN \div pow2)} :
                   pow2 \in PowersUpTo(2, 2, maxN)}
    \cup UNION {(center - densityRadius(dens))..(center + densityRadius(dens)) :
                   center \in PowersUpTo(2, 1024, maxN)}
    \cup UNION {(center - densityRadius(dens))..(center + densityRadius(dens)) :
                   center \in PowersUpTo(3, 729, maxN)}
    \cup {2 + densityStep(dens) * k : k \in 0..((maxN - 2) \div densityStep(dens))}

\* The number of candidates generateCandidates(maxN, dens) yields: the
\* arguments of tryAdd that pass its range test (line 63), each once.
candidateCount(maxN, dens) ==
    Cardinality({n \in candidatePoints(maxN, dens) : 2 <= n /\ n <= maxN})

\* The maxN of the invocations followed through their counters: 1200 (262,
\* 722 and 1009 candidates) and 5 * 10^7 (75768 candidates with density high,
\* more than the estimation cap).
TallyMaxNs == {1200, 50000000}

CountMemo == [m \in TallyMaxNs, d \in Densities |-> candidateCount(m, d)]

\* An estimation pass that stops at the size of a batch.
estimate_capBatch(length) == Min2(length, batchSize + 1)

\* lines 169-174: tempCandidates.length after the estimation loop over a
\* generator that yields length candidates.
estimate(length) == Min2(length, EstimationCap + 1)

\* lines 161-165, before the estimation pass; length is the number of
\* candidates the generators of lines 168 and 178 yield.
NewTally(maxN, dens, length) ==
    [pc |-> "start", outcome |-> None, maxN |-> maxN, density |-> dens,
     length |-> length, totalEstimate |-> 0, consumed |-> 0, batch |-> 0,
     processed |-> 0, progress |-> 0, abort |-> FALSE]

\* lines 202-207 over a full batch: processed++ for each of its candidates,
\* and setProgress at each multiple of 100 (the last one stands).
TallyEvaluate(t, after) ==
    [t EXCEPT !.processed = after,
              !.batch = 0,
              !.progress = IF after \div 100 > t.processed \div 100
                           THEN Min2(99, (100 * ((after \div 100) * 100))
                                             \div Max2(t.totalEstimate, (after \div 100) * 100))
                           ELSE @]

\* lines 218-263: the remaining batch and the block of line 235 are skipped
\* with abortRef.current set; the remaining batch leaves processed alone.
TallyFinish(t) ==
    IF t.abort THEN [t EXCEPT !.pc = "done", !.outcome = "Cancelled"]
    ELSE [t EXCEPT !.pc = "done", !.outcome = "Completed", !.batch = 0, !.progress = 100]

\* lines 181-187, entered with an empty batch: break at line 182 (the
\* candidate pulled last is dropped), a full batch, or the end of the
\* generator.
TallyPull(t) ==
    IF t.abort /\ t.length > t.consumed
    THEN TallyFinish([t EXCEPT !.consumed = @ + 1])
    ELSE IF t.length - t.consumed >= batchSize
    THEN [t EXCEPT !.pc = "await", !.consumed = @ + batchSize, !.batch = batchSize]
    ELSE TallyFinish([t EXCEPT !.consumed = t.length, !.batch = t.length - t.consumed])

\* lines 167-187: the estimation pass, then the loop up to its first await
\* or to the return.
TallyBegin ==
    /\ tally.pc = "start"
    /\ tally' = TallyPull([tally EXCEPT !.totalEstimate = estimate(tally.length)])
    /\ UNCHANGED <<factorVars, genVars, inputVars, searchVars, returned, variantVars>>

\* The timer of the await fires: lines 187-263, up to the next await or to
\* the return.
TallyResume ==
    /\ tally.pc = "await"
    /\ tally' = TallyPull(TallyEvaluate(tally, tally.processed + tally.batch))
    /\ UNCHANGED <<factorVars, genVars, inputVars, searchVars, returned, variantVars>>

\* handleStop while the invocation is suspended: abortRef.current = true
TallyStop ==
    /\ tally.pc = "await" /\ ~tally.abort
    /\ tally' = [tally EXCEPT !.abort = TRUE]
    /\ UNCHANGED <<factorVars, genVars, inputVars, searchVars, returned, variantVars>>

InitTally ==
    /\ \E m \in TallyMaxNs, d \in Densities : tally = NewTally(m, d, CountMemo[m, d])
    /\ FactorIdle /\ GenIdle /\ ExplorerInit(<<>>) /\ VariantsIdle

NextTally == TallyBegin \/ TallyResume \/ TallyStop

SpecTally == InitTally /\ [][NextTally]_vars

(***************************************************************************)
(* Claims: the factorizer                                                  *)
(***************************************************************************)
\* C1: for every n >= 2 the factorizer returns (pow2, pow3, remainder) with
\* 2^pow2 * 3^pow3 * remainder = n*(n+1) exactly, remainder divisible neither
\* by 2 nor by 3, and pow2 >= 1.
C1_FactorizationExact ==
    fOut.by # None =>
        /\ 2 ^ fOut.pow2 * 3 ^ fOut.pow3 * fOut.remainder = fN * (fN + 1)
        /\ fOut.remainder % 2 # 0
        /\ fOut.remainder % 3 # 0
        /\ fOut.pow2 >= 1

\* extract23Powers has returned for an n whose product holds 3 twice or more
\* and a factor other than 2 and 3.
C1_Witness ==
    /\ fOut.by = "extract23Powers"
    /\ fOut.pow3 >= 2 /\ fOut.pow2 >= 2 /\ fOut.remainder > 1

(***************************************************************************)
(* Claims: the candidate generator                                         *)
(***************************************************************************)
\* C2: every integer yielded by generateCandidates(maxN, density) lies in
\* [2, maxN], and no integer is yielded twice.
C2_InRangeNoDuplicates ==
    /\ \A i \in DOMAIN gYielded : 2 <= gYielded[i] /\ gYielded[i] <= gMaxN
    /\ Cardinality(Range(gYielded)) = Len(gYielded)

\* A generator has been run to its end on a maxN that cuts a dense
\* neighbourhood (1024 + 500 > 1200) and whose strategies overlap.
C2_Witness ==
    /\ gState = "completed" /\ gMaxN = 1200 /\ gDensity = "high"
    /\ Len(gYielded) > 1000 /\ gYielded[Len(gYielded)] = gMaxN

\* C3: the sequence yielded by generateCandidates is in strictly ascending
\* numeric order.
C3_StrictlyAscending ==
    \A i \in 1..(Len(gYielded) - 1) : gYielded[i] < gYielded[i + 1]

\* A generator has been run to its end whose Set was not in ascending order.
C3_Witness ==
    /\ gState = "completed" /\ Len(gYielded) >= 2
    /\ gCandidates # gYielded
    /\ Len(gCandidates) = Len(gYielded)

(***************************************************************************)
(* Claims: the streaming search controller                                 *)
(***************************************************************************)
\* The records of s are in strictly increasing order of logRn.
StrictlyIncreasingLogRn(s) == \A k \in 1..(Len(s) - 1) : s[k].logRn < s[k + 1].logRn

\* What C5 says of the locals of one invocation.
SpikeHistoryInOrder(run) ==
    run.autoTrackSpikes =>
        /\ StrictlyIncreasingLogRn(run.acc.spikeResults)
        /\ run.outcome = "Completed" =>
              IF run.acc.spikeResults = <<>> THEN run.acc.maxLogRn = -Infinity
              ELSE run.acc.spikeResults[Len(run.acc.spikeResults)].logRn = run.acc.maxLogRn

\* C5: in spike-tracking mode (autoTrackSpikes) the spike history
\* spikeResults of an invocation is strictly increasing in logRn in the order
\* of discovery, at every await and at the return; and when the invocation has
\* run to its end (Completed) the logRn of the last spike equals maxLogRn.
C5_SpikeHistoryIncreasing ==
    /\ \A i \in DOMAIN runs : SpikeHistoryInOrder(runs[i])
    /\ \A i \in DOMAIN returned : SpikeHistoryInOrder(returned[i])

\* An invocation in spike-tracking mode has run to its end through full
\* batches and a remaining batch, and one of its results equals the running
\* maximum without being a spike.
C5_Witness ==
    /\ returned # Null
    /\ returned[1].autoTrackSpikes /\ returned[1].outcome = "Completed"
    /\ returned[1].acc.processed >= batchSize
    /\ Len(returned[1].acc.results) > returned[1].acc.processed
    /\ returned[1].acc.spikeResults # <<>>
    /\ \E k \in DOMAIN returned[1].acc.results :
           /\ returned[1].acc.results[k].logRn = returned[1].acc.maxLogRn
           /\ returned[1].acc.results[k] \notin Range(returned[1].acc.spikeResults)

\* C6: when an invocation ends cancelled, every record it had accumulated in
\* results is among the results the page exposes (allData or spikes).
C6_CancelledResultsExposed ==
    \A i \in DOMAIN returned :
        returned[i].outcome = "Cancelled" =>
            \A k \in DOMAIN returned[i].acc.results :
                \/ returned[i].acc.results[k] \in Range(allData)
                \/ returned[i].acc.results[k] \in Range(spikes)

\* C7: once abortRef.current is set while an invocation is in flight, it
\* stays set until that invocation has returned: no step resets it while the
\* invocation is still in flight.
C7_CancelFlagMonotonic ==
    [][\A i \in DOMAIN runs :
          abortRef => \/ abortRef'
                      \/ ~\E k \in DOMAIN runs' : runs'[k].id = runs[i].id]_vars

\* C8: at most one invocation of computeData is in flight at any time.
C8_AtMostOneLiveRun == Len(runs) <= 1

\* The invocation run is no longer in flight as it was: it has been resumed.
Resumed(run) == ~\E k \in DOMAIN runs' : runs'[k] = run

\* C9: when abortRef.current is set while an invocation is suspended at the
\* await with a gathered batch, the step that resumes it evaluates every
\* candidate of that batch (one record each, appended to results in the order
\* of the batch) and nothing else, and the invocation returns cancelled.
C9_CancelAtBatchBoundary ==
    [][\A i \in DOMAIN runs :
          (runs[i].pc = "await" /\ abortRef /\ Resumed(runs[i])) =>
              /\ returned' # Null
              /\ returned'[1].id = runs[i].id
              /\ returned'[1].outcome = "Cancelled"
              /\ Len(returned'[1].acc.results) =
                     Len(runs[i].acc.results) + Len(runs[i].batch)
              /\ SubSeq(returned'[1].acc.results, 1, Len(runs[i].acc.results)) =
                     runs[i].acc.results
              /\ \A k \in DOMAIN runs[i].batch :
                     returned'[1].acc.results[Len(runs[i].acc.results) + k].n =
                         runs[i].batch[k]]_vars

\* An invocation has returned cancelled with the results of exactly its
\* first batch: the flag was set while it was suspended before that batch.
C9_Witness ==
    /\ returned # Null /\ abortRef
    /\ returned[1].outcome = "Cancelled"
    /\ Len(returned[1].acc.results) = batchSize
    /\ returned[1].consumed = batchSize + 1

\* The numeral of the supported ceiling, 10^15.
CeilingNumeral ==
    <<"1", "0", "0", "0", "0", "0", "0", "0", "0", "0", "0", "0", "0", "0", "0", "0">>

\* maxN is missing (NaN), non-positive, or greater than 10^15.
InvalidMaxN(maxN) ==
    \/ maxN.kind = "NaN"
    \/ maxN.kind = "int" /\ maxN.val <= 0
    \/ maxN.kind = "big" /\ maxN.neg
    \/ /\ maxN.kind = "big" /\ ~maxN.neg
       /\ \/ Len(maxN.digits) > Len(CeilingNumeral)
          \/ Len(maxN.digits) = Len(CeilingNumeral) /\ maxN.digits # CeilingNumeral

\* C10: while the maxN field holds a maxN that is missing, non-positive or
\* greater than 10^15, no invocation of computeData passes the input test (a
\* rejected invocation returns at line 152 and leaves every state as it is).
C10_InvalidMaxNRejected ==
    [][InvalidMaxN(parsedMaxN(maxNInput)) => starts' = starts]_vars

\* The records of s all have n >= 3.
NoDegenerateRecord(s) == \A k \in DOMAIN s : s[k].n >= 3

\* What C11 says of the locals of one invocation.
DegenerateSkipped(run) ==
    /\ NoDegenerateRecord(run.acc.results)
    /\ NoDegenerateRecord(run.acc.spikeResults)

\* C11: the candidate n = 2 (n < 3) is skipped: no record with n < 3 is ever
\* in the results or in the spike history of an invocation, in flight or just
\* returned.
C11_DegenerateSkipped ==
    /\ \A i \in DOMAIN runs : DegenerateSkipped(runs[i])
    /\ \A i \in DOMAIN returned : DegenerateSkipped(returned[i])

\* C12: no evaluation of a candidate throws in the code (the candidates are
\* BigInts >= 2), so the catch clauses of lines 209-211 and 230-232 are not
\* part of the model and nothing is stated about them.

\* C13: progress is an integer in [0, 99] in every state in which an
\* invocation has not run to its end, and it is 100 exactly when an
\* invocation has completed: the invocation that returns completed leaves
\* progress at 100, the one that returns cancelled does not.
C13_ProgressRange ==
    /\ progress \in 0..100
    /\ runs # <<>> => progress \in 0..99
    /\ \A i \in DOMAIN returned :
           (progress = 100) <=> (returned[i].outcome = "Completed")

\* The id-th invocation that passed the input test is in flight.
InFlight(id) == \E i \in DOMAIN runs : runs[i].id = id

\* The id-th invocation has just returned.
Returned(id) == returned # Null /\ returned[1].id = id

\* The id-th invocation has just returned without the completion output:
\* allData, spikes, stats and progress are as the reset of lines 155-158 and
\* the progress updates of line 206 left them.
ReturnedCancelled(id) ==
    /\ Returned(id) /\ returned[1].outcome = "Cancelled"
    /\ allData = <<>> /\ spikes = <<>> /\ stats = Null /\ progress < 100

\* The id-th invocation has just returned with the completion output of
\* lines 240-260.
ReturnedCompleted(id) ==
    /\ Returned(id) /\ returned[1].outcome = "Completed"
    /\ allData = returned[1].acc.results /\ stats # Null /\ progress = 100

\* This step is the last of the id-th invocation: it was in flight, or it
\* passes the input test in this step, and it is in flight no more.
Ends(id) ==
    /\ InFlight(id) \/ (starts = id - 1 /\ starts' = id)
    /\ ~InFlight(id)'

\* C14: an invocation that passed the input test ends in exactly one of two
\* ways, completed or cancelled: whenever an invocation leaves flight it has
\* returned, with the completion output of lines 240-260 or without any of
\* it, and computing is false; and it returns cancelled only with
\* abortRef.current set.
C14_EveryStartTerminates ==
    [][\A id \in 1..MaxStarts :
          Ends(id) =>
              /\ (ReturnedCancelled(id) \/ ReturnedCompleted(id))'
              /\ ~computing'
              /\ (returned[1].outcome = "Cancelled")' => abortRef']_vars

\* The evaluation of candidate n gives a finite logRn.
FiniteCandidate(n) == isFinite(LogRatioMemo[n].logRn)

\* The values of n of the records of s, in order.
NsOf(s) == [k \in DOMAIN s |-> s[k].n]

\* C15: when an invocation returns completed, the published results allData
\* are in strictly ascending order of n (so no n is there twice), and they are
\* the records of exactly the candidates of the generated sequence whose
\* logRn is finite.
C15_ResultsSortedComplete ==
    \A i \in DOMAIN returned :
        returned[i].outcome = "Completed" =>
            /\ \A k \in 1..(Len(allData) - 1) : allData[k].n < allData[k + 1].n
            /\ NsOf(allData) =
                   SelectSeq(CandidateMemo[returned[i].maxN.val, returned[i].density],
                             FiniteCandidate)
            /\ \A k \in DOMAIN allData : allData[k] = LogRatioMemo[allData[k].n]

\* An invocation has returned completed after two full batches and a
\* remaining batch.
C15_Witness ==
    /\ returned # Null /\ returned[1].outcome = "Completed"
    /\ returned[1].acc.processed = 2 * batchSize
    /\ Len(allData) > 2 * batchSize

\* The id-th invocation is in flight, or passes the input test in this step,
\* with a maxN in [2, 10^15].
ValidRun(id) ==
    \/ \E i \in DOMAIN runs : runs[i].id = id /\ ~InvalidMaxN(runs[i].maxN)
    \/ /\ starts = id - 1 /\ starts' = id
       /\ ~InvalidMaxN(parsedMaxN(maxNInput))

\* stats holds a count > 0, the largest logRn of allData (finite) and a
\* largest n that is the largest n of allData and is no greater than limit.
StatsOf(limit) ==
    /\ stats # Null
    /\ stats[1].total > 0 /\ stats[1].total = Len(allData)
    /\ \E k \in DOMAIN allData :
           /\ isFinite(allData[k].logRn)
           /\ stats[1].maxLogRn = toFixed4(allData[k].logRn)
           /\ \A j \in DOMAIN allData : allData[j].logRn <= allData[k].logRn
    /\ \E k \in DOMAIN allData :
           /\ stats[1].largestN = toLocaleString(allData[k].n)
           /\ allData[k].n <= limit
           /\ \A j \in DOMAIN allData : allData[j].n <= allData[k].n

\* C16: every invocation with a maxN in [2, 10^15], whatever the density,
\* that does not end cancelled ends completed, with stats that hold a count
\* > 0, a finite maxLogRn equal to the largest logRn of the results, and a
\* largest n no greater than maxN.
C16_ValidRunCompletesWithStats ==
    [][\A id \in 1..MaxStarts :
          (ValidRun(id) /\ Ends(id)) =>
              /\ Returned(id)'
              /\ (returned[1].outcome # "Cancelled")' =>
                     /\ ReturnedCompleted(id)'
                     /\ returned'[1].maxN.kind = "int"
                     /\ StatsOf(returned[1].maxN.val)']_vars

\* The invocation followed through its counters has returned cancelled by
\* the break of line 182, before its generator was exhausted.
CancelledEarly ==
    /\ tally.pc = "done" /\ tally.outcome = "Cancelled"
    /\ tally.consumed % batchSize = 1

ProductsUpTo(limit) ==
    UNION {{pow2 * pow3 : pow3 \in PowersUpTo(3, 3, limit \div pow2)} :
              pow2 \in PowersUpTo(2, 2, limit)}

\* n is a structural point or a product point: n + 1 = 2^k or 3^k with
\* k >= 2, or n = 2^a * 3^b - 1 or 2^a * 3^b + 1 with a, b >= 1.  (The limits
\* 200, 130, 100 and 80 of the exponents are beyond every n of the model.)
ExactForm(n) ==
    \/ n + 1 \in PowersUpTo(2, 4, n + 1)
    \/ n + 1 \in PowersUpTo(3, 9, n + 1)
    \/ n + 1 \in ProductsUpTo(n + 1)
    \/ n - 1 \in ProductsUpTo(n - 1)

\* C18: a generator run to its end has yielded every structural point and
\* every product point n with 2 <= n <= maxN, whatever maxN and density.
C18_ExactFormsComplete ==
    gState = "completed" =>
        \A n \in 2..gMaxN : ExactForm(n) => n \in Range(gYielded)

\* What extract23Powers returned: pow2, pow3 and remainder.
Returns(k, l, r) == fOut.pow2 = k /\ fOut.pow3 = l /\ fOut.remainder = r

\* C19: extract23Powers returns pow2 = 3, pow3 = 0, remainder = 7 for n = 7;
\* pow2 = 3, pow3 = 2, remainder = 1 for n = 8; and pow2 = 1, pow3 = 2,
\* remainder = 5 for n = 9.
C19_BoundaryValues ==
    fOut.by = "extract23Powers" =>
        /\ fN = 7 => Returns(3, 0, 7)
        /\ fN = 8 => Returns(3, 2, 1)
        /\ fN = 9 => Returns(1, 2, 5)

\* extract23Powers has returned for n = 8, whose product 72 is fully
\* smooth.
C19_Witness == fOut.by = "extract23Powers" /\ fN = 8 /\ fOut.remainder = 1

\* The id-th invocation passes the input test in this step and has
\* evaluated no candidate at the end of it: it is at its first await, or
\* inside the generator.
StartsUnprocessed(id) ==
    /\ starts = id - 1 /\ starts' = id
    /\ \E i \in DOMAIN runs' :
           /\ runs'[i].id = id
           /\ runs'[i].acc.results = <<>> /\ runs'[i].acc.processed = 0

\* C20: when an invocation passes the input test, the search state is reset
\* before it evaluates a candidate: progress is 0, allData and spikes are
\* empty, stats is null, abortRef.current is false and currentN is null,
\* whatever the invocations before it left.
C20_StartResetsState ==
    [][\A id \in 1..MaxStarts :
          StartsUnprocessed(id) =>
              /\ progress' = 0
              /\ allData' = <<>> /\ spikes' = <<>>
              /\ stats' = Null
              /\ abortRef' = FALSE
              /\ currentN' = Null]_vars

\* maxLogRn of the invocation is the highest logRn among its results
\* (-Infinity when it has none).
RunningMaxIsHighest(run) ==
    IF run.acc.results = <<>> THEN run.acc.maxLogRn = -Infinity
    ELSE /\ \E k \in DOMAIN run.acc.results : run.acc.results[k].logRn = run.acc.maxLogRn
         /\ \A k \in DOMAIN run.acc.results : run.acc.results[k].logRn <= run.acc.maxLogRn

\* C21: with autoTrackSpikes set and without it, maxLogRn of an invocation
\* is the highest logRn among the records it has accumulated, at every await
\* and at the return.
C21_RunningMaxIsHighest ==
    /\ \A i \in DOMAIN runs : RunningMaxIsHighest(runs[i])
    /\ \A i \in DOMAIN returned : RunningMaxIsHighest(returned[i])

\* C22: when an invocation without autoTrackSpikes (top-K mode) returns
\* completed, the published list spikes holds min(50, count) of the
\* accumulated records in non-increasing order of logRn, and no accumulated
\* record outside the list has a logRn greater than that of a listed record.
C22_TopKPublished ==
    \A i \in DOMAIN returned :
        (returned[i].outcome = "Completed" /\ ~returned[i].autoTrackSpikes) =>
            /\ Len(spikes) = Min2(TopCount, Len(returned[i].acc.results))
            /\ Range(spikes) \subseteq Range(returned[i].acc.results)
            /\ Cardinality(Range(spikes)) = Len(spikes)
            /\ \A k \in 1..(Len(spikes) - 1) : spikes[k].logRn >= spikes[k + 1].logRn
            /\ \A r \in Range(returned[i].acc.results) \ Range(spikes) :
                   \A k \in DOMAIN spikes : r.logRn <= spikes[k].logRn

\* An invocation in top-K mode has returned completed with more than 50
\* records, and its list is not in the order of evaluation.
C22_Witness ==
    /\ returned # Null
    /\ returned[1].outcome = "Completed" /\ ~returned[1].autoTrackSpikes
    /\ Len(returned[1].acc.results) > 2 * batchSize
    /\ Len(spikes) = TopCount
    /\ \E k \in 1..(Len(spikes) - 1) : spikes[k].n > spikes[k + 1].n

\* The records of the candidates of an invocation with these arguments, in
\* the order of their evaluation.
Evaluated(maxN, dens) ==
    [k \in DOMAIN CandidateMemo[maxN, dens] |-> LogRatioMemo[CandidateMemo[maxN, dens][k]]]

\* The places of s whose record has a logRn above that of every record
\* before it.
NewMaxima(s) == {k \in DOMAIN s : \A j \in 1..(k - 1) : s[j].logRn < s[k].logRn}

\* h is s restricted to the places of ks, in the order of s.
IsSubsequenceAt(h, s, ks) ==
    /\ Len(h) = Cardinality(ks)
    /\ \A k \in ks : h[Cardinality({j \in ks : j <= k})] = s[k]

C24_DensityMonotone ==
    gState = "completed" =>
        /\ gDensity = "low" =>
               Range(gYielded) \subseteq Range(generateCandidates(gMaxN, "medium"))
        /\ gDensity = "medium" =>
               Range(gYielded) \subseteq Range(generateCandidates(gMaxN, "high"))

\* A generator of density medium has been run to its end on a maxN that
\* holds the second point of its sparse lattice; 3002, of the lattice of
\* density high, is not among its candidates.
C24_Witness ==
    /\ gState = "completed" /\ gDensity = "medium" /\ gMaxN = 10002
    /\ gYielded[Len(gYielded)] = 10002
    /\ 3002 \notin Range(gYielded)

\* C25: for a density that is none of low, medium and high the generator
\* yields the same sequence as for density medium.
C25_UnknownDensityIsMedium ==
    (gState = "completed" /\ gDensity \notin Densities) =>
        gYielded = generateCandidates(gMaxN, "medium")

\* C26: when an invocation has returned completed, its processed counter
\* equals the number of records accumulated in results.
C26_ProcessedCountsResults ==
    \A i \in DOMAIN returned :
        returned[i].outcome = "Completed" =>
            returned[i].acc.processed = Len(returned[i].acc.results)

(***************************************************************************)
(* The timer-batched explorer (src/unnamed/part_001)                       *)
(***************************************************************************)
\* while (num % p === 0n) { count++; num = num / p; } on the BigInt
\* num = n * (n + 1), kept as the pair of its factors a and b: the prime p
\* divides the product iff it divides a factor, and the quotient is the
\* product with that factor divided.
RECURSIVE StripFactorOfProduct(_, _, _, _)
StripFactorOfProduct(a, b, p, count) ==
    IF a % p = 0 THEN StripFactorOfProduct(a \div p, b, p, count + 1)
    ELSE IF b % p = 0 THEN StripFactorOfProduct(a, b \div p, p, count + 1)
    ELSE [count |-> count, a |-> a, b |-> b]

\* part_001 computeRatioBigInt(n).  The field remainder holds the two
\* cofactors whose product is the remainder.  ratio = smoothPart / (n * logN)
\* is kept by its natural logarithm, the field logRatio (the log10 of the
\* source but for a constant factor): +Infinity where n * logN is 0.
computeRatioBigInt(n) ==
    LET s2 == StripFactorOfProduct(n, n + 1, 2, 0)
        s3 == StripFactorOfProduct(s2.a, s2.b, 3, 0)
        logN == MathLogOfInt(n)
    IN  [n |-> n, pow2 |-> s2.count, pow3 |-> s3.count,
         remainder |-> <<s3.a, s3.b>>,
         logRatio |-> FSub(FSub(s2.count * LOG2 + s3.count * LOG3, logN), MathLog(logN))]

\* isFinite(result.ratio) && result.ratio > 0: a ratio is a positive double
\* or +Infinity.
KeepsResult(result) == isFinite(result.logRatio)

\* The elements of the set S of integers of lo..hi, in ascending order.
RECURSIVE Ascending(_, _, _)
Ascending(S, lo, hi) ==
    IF S = {} THEN <<>>
    ELSE IF lo = hi THEN <<lo>>
    ELSE Ascending({x \in S : x <= (lo + hi) \div 2}, lo, (lo + hi) \div 2)
         \o Ascending({x \in S : x > (lo + hi) \div 2}, (lo + hi) \div 2 + 1, hi)

\* part_001 lines 48-103: the Set candidates.  (The limits 100, 65, 40, 25
\* and 60 of the exponents are beyond every maxN of the model.)
sampledSet(maxN, sampleCount, step) ==
    {2 + step * k : k \in 0..((maxN - 2) \div step)}
    \cup {pow - 1 : pow \in PowersUpTo(2, 4, maxN + 1)}
    \cup {pow - 1 : pow \in PowersUpTo(3, 9, maxN + 1)}
    \cup UNION {{pow2 * pow3 - 1 : pow3 \in PowersUpTo(3, 3, (maxN + 1) \div pow2)} :
                   pow2 \in PowersUpTo(2, 2, maxN + 1)}
    \cup UNION {{pow2 * pow3 + 1 : pow3 \in PowersUpTo(3, 3, (maxN - 1) \div pow2)} :
                   pow2 \in PowersUpTo(2, 2, maxN - 1)}
    \cup UNION {{n \in (center - 100)..(center + 100) : n >= 2 /\ n <= maxN} :
                   center \in PowersUpTo(2, 1024, maxN)}
    \cup UNION {{n \in (center - 100)..(center + 100) : n >= 2 /\ n <= maxN} :
                   center \in PowersUpTo(3, 729, maxN)}

\* part_001 generateCandidates(maxN, sampleCount):
\* step = Math.max(1, Math.floor(maxN / Math.min(sampleCount, 1000))), and
\* Array.from(candidates).sort((a, b) => a - b)
generateCandidatesBySample(maxN, sampleCount) ==
    Ascending(sampledSet(maxN, sampleCount,
                         Max2(1, maxN \div Min2(sampleCount, 1000))), 2, Max2(2, maxN))

\* useState('1000000'), useState(1000000)
InitialMaxN == 1000000

\* const batchSize = 1000; (part_001 line 124)
timerBatchSize == 1000

\* generateCandidates(maxN, 10000)
SampleCount == 10000

\* .slice(0, 30)
TopValuesCount == 30

\* The texts typed into the maxN field of part_001: none, "0", "-5", "1",
\* "2", "1,200", "3000" and "2000000000000000".
TimedInputs ==
    { <<>>, <<"0">>, <<"-", "5">>, <<"1">>, <<"2">>, <<"1", ",", "2", "0", "0">>,
      <<"3", "0", "0", "0">>,
      <<"2", "0", "0", "0", "0", "0", "0", "0", "0", "0", "0", "0", "0", "0", "0", "0">> }

\* At most this many calls of computeData, the one of the mount included.
MaxComputations == 3

\* val > 0 && val <= 1e15
AcceptedMaxN(val) ==
    \/ val.kind = "int" /\ val.val > 0
    \/ /\ val.kind = "big" /\ ~val.neg
       /\ \/ Len(val.digits) < 16
          \/ val.digits = <<"1", "0", "0", "0", "0", "0", "0", "0", "0", "0", "0", "0", "0", "0", "0", "0">>

\* The values maxN takes in the model.
TimedMaxNs ==
    {InitialMaxN} \cup
    {parsedMaxN(text).val : text \in {x \in TimedInputs :
        parsedMaxN(x).kind = "int" /\ AcceptedMaxN(parsedMaxN(x))}}

\* generateCandidates(maxN, 10000), evaluated once for each maxN, with the
\* result of computeRatioBigInt for each candidate.
TimedCandidateMemo == [m \in TimedMaxNs |-> generateCandidatesBySample(m, SampleCount)]

TimedRatioMemo ==
    [m \in TimedMaxNs |->
        [k \in DOMAIN TimedCandidateMemo[m] |-> computeRatioBigInt(TimedCandidateMemo[m][k])]]

\* for (const n of batch) { ... results.push(result) ... } for the batch
\* candidates.slice(i, i + batchSize) of the call with the argument maxN.
PushBatch(results, maxN, i) ==
    results \o SelectSeq(SubSeq(TimedRatioMemo[maxN], i + 1,
                                Min2(i + timerBatchSize, Len(TimedRatioMemo[maxN]))),
                         KeepsResult)

\* [...results].sort((a, b) => b.ratio - a.ratio), evaluated once for the
\* array of a call that kept every result.
TimedSortMemo ==
    [m \in TimedMaxNs |-> ArraySort("ratioDesc", TimedRatioMemo[m])]

sortByRatio(results, maxN) ==
    IF results = TimedRatioMemo[maxN] THEN TimedSortMemo[maxN]
    ELSE ArraySort("ratioDesc", results)

\* lines 150-166 with sorted = [...results].sort(...): sorted[0] of an empty
\* array is undefined and line 154 throws, after setData and setTopValues.
Publish(t, results, sorted) ==
    IF sorted = <<>>
    THEN [t EXCEPT !.data = results, !.topValues = <<>>]
    ELSE [t EXCEPT !.data = results,
                   !.topValues = slice(sorted, TopValuesCount),
                   !.stats = Some([totalComputed |-> Len(results),
                                   maxRatio |-> sorted[1].logRatio,
                                   maxRatioN |-> toLocaleString(sorted[1].n),
                                   medianRatio |-> sorted[Len(sorted) \div 2 + 1].logRatio,
                                   largestN |-> toLocaleString(results[Len(results)].n)]),
                   !.computing = FALSE]

\* lines 145-167: results.sort((a, b) => a.n - b.n) sorts the array of the
\* call in place.
Finalize(t, id, results) ==
    Publish([t EXCEPT !.calls[id].results = results,
                      !.calls[id].finalized = @ + 1],
            results, sortByRatio(results, t.calls[id].maxN))

\* The callback of lines 130-168 for the batch at index i of the call id,
\* whose array results becomes pushed.
AfterBatch(t, id, pushed, after) ==
    IF after >= t.calls[id].length
    THEN Finalize([t EXCEPT !.calls[id].processed = after,
                            !.progress = (100 * after) \div t.calls[id].length],
                  id, ArraySort("n", pushed))
    ELSE [t EXCEPT !.calls[id].results = pushed,
                   !.calls[id].processed = after,
                   !.progress = (100 * after) \div t.calls[id].length]

\* lines 127-169: one timer for each batch, in the order of the batches.
BatchTimers(id, length) ==
    [k \in 1..((length + timerBatchSize - 1) \div timerBatchSize) |->
        [call |-> id, i |-> (k - 1) * timerBatchSize]]

\* part_001 computeData, lines 118-170, with the value of maxN it closes
\* over; the callbacks of its timers run later.
computeDataTimed(t, maxN) ==
    [t EXCEPT !.computing = TRUE,
              !.progress = 0,
              !.calls = Append(@, [maxN |-> maxN,
                                   length |-> Len(TimedCandidateMemo[maxN]),
                                   results |-> <<>>, processed |-> 0, finalized |-> 0]),
              !.timers = @ \o BatchTimers(Len(t.calls) + 1, Len(TimedCandidateMemo[maxN]))]

\* The component before its effects have run.
Unmounted ==
    [pc |-> "mounted", maxNInput |-> Numeral(InitialMaxN), maxN |-> InitialMaxN,
     computing |-> FALSE, progress |-> 0, data |-> <<>>, topValues |-> <<>>,
     stats |-> Null, timers |-> <<>>, calls |-> <<>>]

\* After the mount: useEffect(() => { computeData(); }, [maxN]) has run.
InitTimed ==
    /\ timed = computeDataTimed(Unmounted, InitialMaxN)
    /\ earliest = [pc |-> "none"]
    /\ FactorIdle /\ GenIdle /\ ExplorerInit(<<>>) /\ TallyIdle

\* onChange of the maxN field
TimedSetMaxNInput(text) ==
    /\ Len(timed.calls) < MaxComputations
    /\ text # timed.maxNInput
    /\ timed' = [timed EXCEPT !.maxNInput = text]
    /\ UNCHANGED <<factorVars, genVars, inputVars, searchVars, returned, tally, earliest>>

\* part_001 handleSetMaxN, lines 176-181 (the button is disabled while
\* computing, line 207), and the effect of line 172 when maxN has changed.
handleSetMaxN ==
    /\ ~timed.computing
    /\ Len(timed.calls) < MaxComputations
    /\ parsedMaxN(timed.maxNInput).kind # "big" \/ ~AcceptedMaxN(parsedMaxN(timed.maxNInput))
    /\ timed' = IF AcceptedMaxN(parsedMaxN(timed.maxNInput))
                   /\ parsedMaxN(timed.maxNInput).val # timed.maxN
                THEN computeDataTimed([timed EXCEPT !.maxN = parsedMaxN(timed.maxNInput).val],
                                      parsedMaxN(timed.maxNInput).val)
                ELSE timed
    /\ UNCHANGED <<factorVars, genVars, inputVars, searchVars, returned, tally, earliest>>

\* The timer set first fires: its callback runs.
TimerFires ==
    /\ timed.timers # <<>>
    /\ timed' = AfterBatch([timed EXCEPT !.timers = Tail(@)],
                           Head(timed.timers).call,
                           PushBatch(timed.calls[Head(timed.timers).call].results,
                                     timed.calls[Head(timed.timers).call].maxN,
                                     Head(timed.timers).i),
                           timed.calls[Head(timed.timers).call].processed
                               + Min2(timerBatchSize,
                                      timed.calls[Head(timed.timers).call].length
                                          - Head(timed.timers).i))
    /\ UNCHANGED <<factorVars, genVars, inputVars, searchVars, returned, tally, earliest>>

NextTimed ==
    \/ \E text \in TimedInputs : TimedSetMaxNInput(text)
    \/ handleSetMaxN
    \/ TimerFires

SpecTimed == InitTimed /\ [][NextTimed]_vars

\* The timers of the call id that have not fired.
PendingOf(id) == {k \in DOMAIN timed.timers : timed.timers[k].call = id}

\* C27: in the timer-batched explorer, once every batch of a call of
\* computeData has been processed its finalization has run exactly once (and
\* never more than once before), and once no timer is left computing is
\* false.
C27_TimedComputationEnds ==
    /\ \A id \in DOMAIN timed.calls :
           /\ timed.calls[id].finalized <= 1
           /\ timed.calls[id].finalized = 1 => timed.calls[id].processed = timed.calls[id].length
           /\ PendingOf(id) = {} => timed.calls[id].finalized = 1
    /\ timed.timers = <<>> => ~timed.computing

(***************************************************************************)
(* The earliest explorer (src/unnamed/part_000)                            *)
(***************************************************************************)
\* part_000 computeLogR(n), with extract23PowersBigInt on the product
\* n * (n + 1); Math.log(Math.log(1)) is -Infinity and logR is +Infinity
\* for n = 1.  (ratioApprox = Math.exp(logR), a function of logR, is not
\* kept; remainder holds the two cofactors whose product is the remainder.)
computeLogR(n) ==
    LET s2 == StripFactorOfProduct(n, n + 1, 2, 0)
        s3 == StripFactorOfProduct(s2.a, s2.b, 3, 0)
        logN == MathLogOfInt(n)
    IN  [n |-> n, k |-> s2.count, l |-> s3.count, remainder |-> <<s3.a, s3.b>>,
         logR |-> FSub(FSub(s2.count * LOG2 + s3.count * LOG3, logN), MathLog(logN))]

\* floor(log3(x)) for an integer x >= 1.
RECURSIVE FloorLog3(_)
FloorLog3(x) == IF x < 3 THEN 0 ELSE 1 + FloorLog3(x \div 3)

\* Math.floor(Math.log(maxN)/Math.log(3)) + 1 for an integer maxN >= 1.  The
\* quotient of the two rounded logarithms of an exact power 3^k, k >= 2, is
\* k or the double just below or above it: the floor is k - 1 or k.
MaxPower3s(maxN) ==
    IF maxN >= 9 /\ 3 ^ FloorLog3(maxN) = maxN
    THEN {FloorLog3(maxN), FloorLog3(maxN) + 1}
    ELSE {FloorLog3(maxN) + 1}

\* part_000 lines 27-40 for an integer maxN >= 1: the Set.  (The products
\* beyond maxN, which lines 35-36 refuse, are left out before they are
\* formed; the limit 20 of both exponents is kept.)
earliestSet(maxN, maxPower2, maxPower3, step) ==
    {2 ^ a - 1 : a \in 1..maxPower2}
    \cup {3 ^ b - 1 : b \in 1..maxPower3}
    \cup UNION {UNION {{n \in {2 ^ a * 3 ^ b - 1, 2 ^ a * 3 ^ b + 1} : n > 1 /\ n <= maxN} :
                          b \in 1..Min2(20, FloorLog3((maxN + 1) \div 2 ^ a))} :
                   a \in 1..Min2(20, FloorLog2(maxN + 1))}
    \cup {2 + step * j : j \in 0..((maxN - 2) \div step)}

\* part_000 generateCandidates(maxN), lines 26-42, for the Number maxN.  With
\* maxN NaN, zero or negative every loop test fails (a <= NaN, n <= maxN)
\* and the array is empty.  maxPower3 is line 29's.
generateCandidatesEarliest(maxN, maxPower3) ==
    IF maxN.kind = "NaN" \/ maxN.val < 1 THEN <<>>
    ELSE Ascending(earliestSet(maxN.val, FloorLog2(maxN.val) + 1, maxPower3,
                               Max2(1, maxN.val \div 1000)),
                   1, Max2(2 ^ (FloorLog2(maxN.val) + 1), 3 ^ maxPower3))

\* The values of maxPower3 that line 29 can give.
EarliestMaxPower3s(maxN) ==
    IF maxN.kind = "NaN" \/ maxN.val < 1 THEN {0} ELSE MaxPower3s(maxN.val)

\* candidates.map(n => computeLogR(n))
MapLogR(candidates) == [j \in DOMAIN candidates |-> computeLogR(candidates[j])]

\* part_000 computeData, lines 50-57, on the array of line 52.
earliestComputeData(e, results) ==
    [e EXCEPT !.top = slice(ArraySort("logRDesc", results), 30),
              !.data = ArraySort("n", ArraySort("logRDesc", results))]

\* useState('1000000'), useState(1000000), useState([]), useState([])
EarliestUnmounted ==
    [pc |-> "mounted", maxNInput |-> Numeral(InitialMaxN),
     maxN |-> parseInt(Numeral(InitialMaxN)), data |-> <<>>, top |-> <<>>]

\* The texts typed into the maxN field of part_000 are the numerals of
\* 1..EarliestSmallMaxN and those of EarliestInputs.
EarliestSmallMaxN == 12

\* none, "0", "-5", "1,200" and "1000000"
EarliestInputs ==
    { <<>>, <<"0">>, <<"-", "5">>, <<"1", ",", "2", "0", "0">>, Numeral(InitialMaxN) }
    \cup {Numeral(n) : n \in 1..EarliestSmallMaxN}

\* After the mount: useEffect(()=>{ computeData(); },[maxN]) has run.
InitEarliest ==
    /\ earliest = earliestComputeData(EarliestUnmounted,
                      MapLogR(generateCandidatesEarliest(EarliestUnmounted.maxN,
                                                         FloorLog3(InitialMaxN) + 1)))
    /\ timed = [pc |-> "none"]
    /\ FactorIdle /\ GenIdle /\ ExplorerInit(<<>>) /\ TallyIdle

\* onChange of the maxN field
EarliestSetMaxNInput(text) ==
    /\ text # earliest.maxNInput
    /\ earliest' = [earliest EXCEPT !.maxNInput = text]
    /\ UNCHANGED <<factorVars, genVars, inputVars, searchVars, returned, tally, timed>>

\* onClick of the Compute button, line 66: setMaxN(parseInt(...)), and the
\* effect of line 59 when maxN has changed.
EarliestCompute ==
    /\ parsedMaxN(earliest.maxNInput) # earliest.maxN
    /\ \E maxPower3 \in EarliestMaxPower3s(parsedMaxN(earliest.maxNInput)) :
           earliest' = earliestComputeData(
                           [earliest EXCEPT !.maxN = parsedMaxN(earliest.maxNInput)],
                           MapLogR(generateCandidatesEarliest(parsedMaxN(earliest.maxNInput),
                                                              maxPower3)))
    /\ UNCHANGED <<factorVars, genVars, inputVars, searchVars, returned, tally, timed>>

NextEarliest ==
    \/ \E text \in EarliestInputs : EarliestSetMaxNInput(text)
    \/ EarliestCompute

SpecEarliest == InitEarliest /\ [][NextEarliest]_vars

\* C28: in the earliest explorer every candidate that computeLogR has been
\* applied to (the n of each record of data) lies in 2..maxN.
C28_EarliestCandidatesInRange ==
    earliest.maxN.kind = "int" =>
        \A j \in DOMAIN earliest.data :
            2 <= earliest.data[j].n /\ earliest.data[j].n <= earliest.maxN.val

====
